---- MODULE Spec2Model ----
(***************************************************************************)
(* Sensor wrapper of src/system/sensors.rs and src/system/info.rs.         *)
(*                                                                         *)
(* Spec:       SensorListenerHandle, SensorListener::new / start / stop /  *)
(*             destroy, the implicit drop of a SensorListener, and         *)
(*             sensor_listener_handler, running against a native platform  *)
(*             that keeps one listener resource per handle and calls the   *)
(*             registered callback on its own thread.                      *)
(* SpecOps:    the Sensor functions (get_default, get_list, name,          *)
(*             is_wake_up, is_supported), get_platform_string and the      *)
(*             listener operations, with no events delivered.              *)
(* SpecCheck:  the status mappings, Error::check and info.rs Error::from.  *)
(* SpecDecode: FromSensorEvent::from_event of every descriptor.            *)
(* SpecShared: two SensorListeners alive at once on the one trampoline,    *)
(*             with batches delivered to both in any order.                *)
(***************************************************************************)
EXTENDS Integers, Sequences, FiniteSets, TLC

(* ------------------------------ bounds -------------------------------- *)

\* listener slots of the model; each slot lives through one lifecycle
NumListeners == 2
\* distinct handler objects a caller may pass to new()
NumHandlers == 2
\* raw events the platform delivers in one behaviour, over all batches
MaxEvents == 3
\* f32 values are kept as integers in units of 1/FScale
FScale == 2

Listeners == 1..NumListeners
\* heap cells a Box<U> may be placed in: one per listener suffices
Addrs == 1..NumListeners
NULL == 0

(* --------------------------- status codes ----------------------------- *)

SENSOR_ERROR_NONE == 0
SENSOR_ERROR_INVALID_PARAMETER == -22
SENSOR_ERROR_OUT_OF_MEMORY == -12
SENSOR_ERROR_IO_ERROR == -5
SENSOR_ERROR_PERMISSION_DENIED == -13
SENSOR_ERROR_NOT_SUPPORTED == -1073741822
SENSOR_ERROR_NO_DATA == -61
SENSOR_ERROR_NOT_NEED_CALIBRATION == -38010877
SENSOR_ERROR_OPERATION_FAILED == -38010874
SENSOR_ERROR_NOT_AVAILABLE == -38010873

\* a status outside the documented set
UndocumentedStatus == SENSOR_ERROR_NONE + 99

\* the statuses the native calls of the model return
Statuses ==
    {SENSOR_ERROR_NONE, SENSOR_ERROR_INVALID_PARAMETER, UndocumentedStatus}

\* Error values: <<kind>> for the unit variants, <<"Other", code>>
NoError == <<"NoError">>

\* Result<()>
OkUnit == [ok |-> TRUE, error |-> NoError]
ErrUnit(e) == [ok |-> FALSE, error |-> e]

\* the mapping with the fallback arm replaced by a fixed kind
CheckLossy(i) ==
    IF i = SENSOR_ERROR_NONE THEN OkUnit ELSE ErrUnit(<<"OperationFailed">>)

\* Error::check
Check(i) ==
    CASE i = SENSOR_ERROR_NONE -> OkUnit
      [] i = SENSOR_ERROR_INVALID_PARAMETER -> ErrUnit(<<"InvalidParameter">>)
      [] i = SENSOR_ERROR_OUT_OF_MEMORY -> ErrUnit(<<"OutOfMemory">>)
      [] i = SENSOR_ERROR_IO_ERROR -> ErrUnit(<<"IoError">>)
      [] i = SENSOR_ERROR_PERMISSION_DENIED -> ErrUnit(<<"PermissionDenied">>)
      [] i = SENSOR_ERROR_NOT_SUPPORTED -> ErrUnit(<<"NotSupported">>)
      [] i = SENSOR_ERROR_NO_DATA -> ErrUnit(<<"NoData">>)
      [] i = SENSOR_ERROR_NOT_NEED_CALIBRATION -> ErrUnit(<<"NotNeedCalibration">>)
      [] i = SENSOR_ERROR_OPERATION_FAILED -> ErrUnit(<<"OperationFailed">>)
      [] i = SENSOR_ERROR_NOT_AVAILABLE -> ErrUnit(<<"NotAvailable">>)
      [] OTHER -> ErrUnit(<<"Other", i>>)

(* ------------------------- events and decoding ------------------------ *)

\* the f32 with integer value n
F(n) == n * FScale

\* `f as u32`: truncation toward zero, negative values saturate at 0
AsU32(f) == IF f < 0 THEN 0 ELSE f \div FScale

\* `f as usize`: as for u32, on the wider type
AsUsize(f) == IF f < 0 THEN 0 ELSE f \div FScale

\* `f as i32`: truncation toward zero, saturating at the ends of the range
AsI32(f) ==
    LET t == IF f < 0 THEN -((-f) \div FScale) ELSE f \div FScale
    IN  IF t > 2147483647 THEN 2147483647
        ELSE IF t < -2147483647 - 1 THEN -2147483647 - 1 ELSE t

SENSOR_PROXIMITY_NEAR == 0
SENSOR_PROXIMITY_FAR == 1

SENSOR_DATA_ACCURACY_UNDEFINED == -1
SENSOR_DATA_ACCURACY_BAD == 0
SENSOR_DATA_ACCURACY_NORMAL == 1
SENSOR_DATA_ACCURACY_GOOD == 2
SENSOR_DATA_ACCURACY_VERYGOOD == 3

SENSOR_HRM_BATCH_STATE_NODATA_FLUSH == -99
SENSOR_HRM_BATCH_STATE_VERYLOW_RELIABILITY == -10
SENSOR_HRM_BATCH_STATE_LOW_RELIABILITY == -8
SENSOR_HRM_BATCH_STATE_DETACHED_AUTO == -5
SENSOR_HRM_BATCH_STATE_DETACHED == -3
SENSOR_HRM_BATCH_STATE_DETECT_MOVE == -2
SENSOR_HRM_BATCH_STATE_ATTACHED == -1
SENSOR_HRM_BATCH_STATE_NONE == 0
SENSOR_HRM_BATCH_STATE_OK == 1

SENSOR_PEDOMETER_STATE_UNKNOWN == -1
SENSOR_PEDOMETER_STATE_STOP == 0
SENSOR_PEDOMETER_STATE_WALK == 1
SENSOR_PEDOMETER_STATE_RUN == 2

SENSOR_SLEEP_STATE_UNKNOWN == -1
SENSOR_SLEEP_STATE_WAKE == 0
SENSOR_SLEEP_STATE_SLEEP == 1

\* impl From<sensor_data_accuracy_e> for Accuracy
AccuracyFrom(accuracy) ==
    CASE accuracy = SENSOR_DATA_ACCURACY_UNDEFINED -> <<"Undefined">>
      [] accuracy = SENSOR_DATA_ACCURACY_BAD -> <<"Bad">>
      [] accuracy = SENSOR_DATA_ACCURACY_NORMAL -> <<"Normal">>
      [] accuracy = SENSOR_DATA_ACCURACY_GOOD -> <<"Good">>
      [] accuracy = SENSOR_DATA_ACCURACY_VERYGOOD -> <<"VeryGood">>
      [] OTHER -> <<"Undefined">>

\* impl From<f32> for HeartRateMonitorBatchState
HeartRateMonitorBatchStateFrom(value) ==
    LET v == AsI32(value)
    IN  CASE v = SENSOR_HRM_BATCH_STATE_NODATA_FLUSH -> <<"NoDataFlush">>
          [] v = SENSOR_HRM_BATCH_STATE_VERYLOW_RELIABILITY ->
                 <<"VeryLowReliability">>
          [] v = SENSOR_HRM_BATCH_STATE_LOW_RELIABILITY -> <<"LowReliability">>
          [] v = SENSOR_HRM_BATCH_STATE_DETACHED_AUTO -> <<"DetachedAuto">>
          [] v = SENSOR_HRM_BATCH_STATE_DETACHED -> <<"Detached">>
          [] v = SENSOR_HRM_BATCH_STATE_DETECT_MOVE -> <<"DetectMove">>
          [] v = SENSOR_HRM_BATCH_STATE_ATTACHED -> <<"Attached">>
          [] v = SENSOR_HRM_BATCH_STATE_NONE -> <<"None">>
          [] v = SENSOR_HRM_BATCH_STATE_OK -> <<"Ok">>
          [] OTHER -> <<"Unknown", value>>

\* impl From<f32> for PedometerState
PedometerStateFrom(value) ==
    LET v == AsI32(value)
    IN  CASE v = SENSOR_PEDOMETER_STATE_UNKNOWN -> <<"Unknown">>
          [] v = SENSOR_PEDOMETER_STATE_STOP -> <<"Stop">>
          [] v = SENSOR_PEDOMETER_STATE_WALK -> <<"Walk">>
          [] v = SENSOR_PEDOMETER_STATE_RUN -> <<"Run">>
          [] OTHER -> <<"Unknown">>

\* impl From<f32> for SleepMonitorState
SleepMonitorStateFrom(value) ==
    LET v == AsI32(value)
    IN  CASE v = SENSOR_SLEEP_STATE_UNKNOWN -> <<"Unknown">>
          [] v = SENSOR_SLEEP_STATE_WAKE -> <<"Wake">>
          [] v = SENSOR_SLEEP_STATE_SLEEP -> <<"Sleep">>
          [] OTHER -> <<"Unknown">>

\* the descriptors (type parameter T) of the listeners of the model
SensorTypes == {"Accelerometer", "Proximity"}

\* raw sensor_event_s records the platform delivers
RawEvents ==
    { [timestamp |-> 1000, values |-> <<F(1), F(2), F(3)>>],
      [timestamp |-> 2000, values |-> <<F(0), F(5), F(9)>>] }

\* a decoder that reads x and y from each other's index
AccelerometerFromEventSwapped(data) ==
    [kind |-> "Accelerometer", timestamp |-> data.timestamp,
     x |-> data.values[2], y |-> data.values[1], z |-> data.values[3]]

\* AccelerometerEvent::from_event
AccelerometerFromEvent(data) ==
    [kind |-> "Accelerometer", timestamp |-> data.timestamp,
     x |-> data.values[1], y |-> data.values[2], z |-> data.values[3]]

\* a decoder whose Near and Far arms are exchanged
ProximityFromEventSwapped(data) ==
    LET v == AsU32(data.values[1])
    IN  CASE v = SENSOR_PROXIMITY_NEAR -> [kind |-> "Proximity.Far"]
          [] v = SENSOR_PROXIMITY_FAR -> [kind |-> "Proximity.Near"]
          [] OTHER -> [kind |-> "Proximity.Unknown"]

\* ProximityEvent::from_event
ProximityFromEvent(data) ==
    LET v == AsU32(data.values[1])
    IN  CASE v = SENSOR_PROXIMITY_NEAR -> [kind |-> "Proximity.Near"]
          [] v = SENSOR_PROXIMITY_FAR -> [kind |-> "Proximity.Far"]
          [] OTHER -> [kind |-> "Proximity.Unknown"]

\* GravityEvent::from_event
GravityFromEvent(data) ==
    [kind |-> "Gravity", timestamp |-> data.timestamp, x |-> data.values[1],
     y |-> data.values[2], z |-> data.values[3]]

\* LinearAccelerationEvent::from_event
LinearAccelerationFromEvent(data) ==
    [kind |-> "LinearAcceleration", timestamp |-> data.timestamp,
     x |-> data.values[1], y |-> data.values[2], z |-> data.values[3]]

\* MagneticEvent::from_event
MagneticFromEvent(data) ==
    [kind |-> "Magnetic", timestamp |-> data.timestamp, x |-> data.values[1],
     y |-> data.values[2], z |-> data.values[3]]

\* RotationVectorEvent::from_event
RotationVectorFromEvent(data) ==
    [kind |-> "RotationVector", timestamp |-> data.timestamp,
     accuracy |-> AccuracyFrom(data.accuracy), x |-> data.values[1],
     y |-> data.values[2], z |-> data.values[3], w |-> data.values[4]]

\* OrientationEvent::from_event
OrientationFromEvent(data) ==
    [kind |-> "Orientation", timestamp |-> data.timestamp,
     azimuth |-> data.values[1], pitch |-> data.values[2],
     roll |-> data.values[3]]

\* GyroscopeEvent::from_event
GyroscopeFromEvent(data) ==
    [kind |-> "Gyroscope", timestamp |-> data.timestamp,
     x |-> data.values[1], y |-> data.values[2], z |-> data.values[3]]

\* LightEvent::from_event
LightFromEvent(data) ==
    [kind |-> "Light", timestamp |-> data.timestamp,
     level |-> data.values[1]]

\* PressureEvent::from_event
PressureFromEvent(data) ==
    [kind |-> "Pressure", timestamp |-> data.timestamp,
     pressure |-> data.values[1]]

\* UltravioletEvent::from_event
UltravioletFromEvent(data) ==
    [kind |-> "Ultraviolet", timestamp |-> data.timestamp,
     uv_index |-> data.values[1]]

\* TemperatureEvent::from_event
TemperatureFromEvent(data) ==
    [kind |-> "Temperature", timestamp |-> data.timestamp,
     temperature |-> data.values[1]]

\* HumidityEvent::from_event
HumidityFromEvent(data) ==
    [kind |-> "Humidity", timestamp |-> data.timestamp,
     humidity |-> data.values[1]]

\* HeartRateMonitorEvent::from_event
HeartRateMonitorFromEvent(data) ==
    [kind |-> "HeartRateMonitor", timestamp |-> data.timestamp,
     bpm |-> data.values[1]]

\* HeartRateMonitorGreenLedEvent::from_event
HeartRateMonitorGreenLedFromEvent(data) ==
    [kind |-> "HeartRateMonitorGreenLed", timestamp |-> data.timestamp,
     green_light |-> data.values[1]]

\* HeartRateMonitorRedLedEvent::from_event
HeartRateMonitorRedLedFromEvent(data) ==
    [kind |-> "HeartRateMonitorRedLed", timestamp |-> data.timestamp,
     red_light |-> data.values[1]]

\* HeartRateMonitorInfraredLedEvent::from_event
HeartRateMonitorInfraredLedFromEvent(data) ==
    [kind |-> "HeartRateMonitorInfraredLed", timestamp |-> data.timestamp,
     infrared_light |-> data.values[1]]

\* UncalibratedGyroscopeEvent::from_event
UncalibratedGyroscopeFromEvent(data) ==
    [kind |-> "UncalibratedGyroscope", timestamp |-> data.timestamp,
     x |-> data.values[1], y |-> data.values[2], z |-> data.values[3],
     x_drift |-> data.values[4], y_drift |-> data.values[5],
     z_drift |-> data.values[6]]

\* UncalibratedMagneticEvent::from_event
UncalibratedMagneticFromEvent(data) ==
    [kind |-> "UncalibratedMagnetic", timestamp |-> data.timestamp,
     x |-> data.values[1], y |-> data.values[2], z |-> data.values[3],
     x_bias |-> data.values[4], y_bias |-> data.values[5],
     z_bias |-> data.values[6]]

\* GyroscopeRotationVectorEvent::from_event
GyroscopeRotationVectorFromEvent(data) ==
    [kind |-> "GyroscopeRotationVector", timestamp |-> data.timestamp,
     accuracy |-> AccuracyFrom(data.accuracy), x |-> data.values[1],
     y |-> data.values[2], z |-> data.values[3], w |-> data.values[4]]

\* GeomagneticRotationVectorEvent::from_event
GeomagneticRotationVectorFromEvent(data) ==
    [kind |-> "GeomagneticRotationVector", timestamp |-> data.timestamp,
     accuracy |-> AccuracyFrom(data.accuracy), x |-> data.values[1],
     y |-> data.values[2], z |-> data.values[3], w |-> data.values[4]]

\* SignificantMotionEvent::from_event
SignificantMotionFromEvent(data) ==
    [kind |-> "SignificantMotion", timestamp |-> data.timestamp,
     value |-> data.values[1]]

\* HeartRateMonitorBatchEvent::from_event
HeartRateMonitorBatchFromEvent(data) ==
    [kind |-> "HeartRateMonitorBatch", timestamp |-> data.timestamp,
     state |-> HeartRateMonitorBatchStateFrom(data.values[1]),
     bpm |-> data.values[2], r_to_r_interval |-> data.values[3]]

\* HeartRateMonitorGreenLedBatchEvent::from_event
HeartRateMonitorGreenLedBatchFromEvent(data) ==
    [kind |-> "HeartRateMonitorGreenLedBatch", timestamp |-> data.timestamp,
     green_light |-> data.values[1], x |-> data.values[2],
     y |-> data.values[3], z |-> data.values[4],
     index |-> AsUsize(data.values[5])]

\* PedometerEvent::from_event
PedometerFromEvent(data) ==
    [kind |-> "Pedometer", timestamp |-> data.timestamp,
     steps |-> AsU32(data.values[1]),
     walking_steps |-> AsU32(data.values[2]),
     running_steps |-> AsU32(data.values[3]),
     moving_distance |-> data.values[4], calories_burned |-> data.values[5],
     last_speed |-> data.values[6],
     last_stepping_frequency |-> data.values[7],
     last_state |-> PedometerStateFrom(data.values[8])]

\* SleepMonitorEvent::from_event
SleepMonitorFromEvent(data) ==
    [kind |-> "SleepMonitor", timestamp |-> data.timestamp,
     last_state |-> SleepMonitorStateFrom(data.values[1])]

\* every SensorType implementor
AllSensorTypes ==
    {"Accelerometer", "Gravity", "LinearAcceleration", "Magnetic",
     "RotationVector", "Orientation", "Gyroscope", "Light", "Proximity",
     "Pressure", "Ultraviolet", "Temperature", "Humidity",
     "HeartRateMonitor", "HeartRateMonitorGreenLed",
     "HeartRateMonitorRedLed", "HeartRateMonitorInfraredLed",
     "UncalibratedGyroscope", "UncalibratedMagnetic",
     "GyroscopeRotationVector", "GeomagneticRotationVector",
     "SignificantMotion", "HeartRateMonitorBatch",
     "HeartRateMonitorGreenLedBatch", "Pedometer", "SleepMonitor"}

\* a decoder that ignores the descriptor
FromEventAnyType(T, data) == AccelerometerFromEvent(data)

\* T::Event::from_event for the descriptor T
FromEvent(T, data) ==
    CASE T = "Accelerometer" -> AccelerometerFromEvent(data)
      [] T = "Gravity" -> GravityFromEvent(data)
      [] T = "LinearAcceleration" -> LinearAccelerationFromEvent(data)
      [] T = "Magnetic" -> MagneticFromEvent(data)
      [] T = "RotationVector" -> RotationVectorFromEvent(data)
      [] T = "Orientation" -> OrientationFromEvent(data)
      [] T = "Gyroscope" -> GyroscopeFromEvent(data)
      [] T = "Light" -> LightFromEvent(data)
      [] T = "Proximity" -> ProximityFromEvent(data)
      [] T = "Pressure" -> PressureFromEvent(data)
      [] T = "Ultraviolet" -> UltravioletFromEvent(data)
      [] T = "Temperature" -> TemperatureFromEvent(data)
      [] T = "Humidity" -> HumidityFromEvent(data)
      [] T = "HeartRateMonitor" -> HeartRateMonitorFromEvent(data)
      [] T = "HeartRateMonitorGreenLed" -> HeartRateMonitorGreenLedFromEvent(data)
      [] T = "HeartRateMonitorRedLed" -> HeartRateMonitorRedLedFromEvent(data)
      [] T = "HeartRateMonitorInfraredLed" -> HeartRateMonitorInfraredLedFromEvent(data)
      [] T = "UncalibratedGyroscope" -> UncalibratedGyroscopeFromEvent(data)
      [] T = "UncalibratedMagnetic" -> UncalibratedMagneticFromEvent(data)
      [] T = "GyroscopeRotationVector" -> GyroscopeRotationVectorFromEvent(data)
      [] T = "GeomagneticRotationVector" -> GeomagneticRotationVectorFromEvent(data)
      [] T = "SignificantMotion" -> SignificantMotionFromEvent(data)
      [] T = "HeartRateMonitorBatch" -> HeartRateMonitorBatchFromEvent(data)
      [] T = "HeartRateMonitorGreenLedBatch" -> HeartRateMonitorGreenLedBatchFromEvent(data)
      [] T = "Pedometer" -> PedometerFromEvent(data)
      [] T = "SleepMonitor" -> SleepMonitorFromEvent(data)

(* ------------------------------- state -------------------------------- *)

VARIABLES
    slots,        \* the listener slots the caller uses in this behaviour
    pc,           \* per slot: where the caller is in the listener's lifecycle
    obj,          \* per slot: the SensorListener value (sensor, handler box, handle)
    dropk,        \* per slot: fields already dropped by the drop glue
    pend,         \* per slot: the Result of self.handle.destroy() awaiting its match
    native,       \* per slot: the platform's listener resource
    heap,         \* per address: the Box<U> allocation placed there
    ret,          \* per slot: what the last wrapper call returned to the caller
    passed,       \* per slot: the sensor and handler the caller passed to new()
    issued,       \* the native calls the last caller step issued
    destroyCalls, \* per slot: sensor_destroy_listener calls issued so far
    setCbCalls,   \* per slot: sensor_listener_set_events_cb calls issued so far
    starts,       \* per slot: start() was "never" called, only "failed", or returned "ok"
    nstat,        \* per slot: the last status of each native lifecycle call
    invoked,      \* per slot: handler invocations made for its deliveries
    cbk,          \* the platform thread: the trampoline invocation in progress
    budget,       \* raw events the platform may still deliver
    crashed,      \* the process was brought down by a use of freed memory
    calc          \* the last call of a function that takes no listener

vars ==
    <<slots, pc, obj, dropk, pend, native, heap, ret, passed, issued,
      destroyCalls, setCbCalls, starts, nstat, invoked, cbk, budget, crashed,
      calc>>

\* the state of the listeners and of the platform thread
listenerVars ==
    <<slots, pc, obj, dropk, pend, native, heap, ret, passed, issued,
      destroyCalls, setCbCalls, starts, nstat, invoked, cbk, budget, crashed>>

\* Option<sensor_listener_h>: None, or Some(the native handle of slot l) = l
None == 0

\* a handler object: its identity and the events it has been given
Handler(id) == [id |-> id, log |-> <<>>]
NoHandler == [id |-> 0, log |-> <<>>]
Handlers == {Handler(id) : id \in 1..NumHandlers}

NoListener == [exists |-> FALSE, started |-> FALSE, cb_fn |-> "null", cb_data |-> NULL]
NoObj == [sensor |-> "none", box |-> NULL, handle |-> None]
FreeCell == [live |-> FALSE, val |-> NoHandler]
NoRet == [op |-> "none", ok |-> TRUE, error |-> NoError, handler |-> NoHandler]
NoPassed == [handler |-> NoHandler, sensor |-> "none"]
NoStat ==
    [create |-> SENSOR_ERROR_NONE, set_cb |-> SENSOR_ERROR_NONE,
     destroy |-> SENSOR_ERROR_NONE]
\* no call made yet
NoCalc ==
    [op |-> "none", calls |-> <<>>, st |-> SENSOR_ERROR_NONE, ok |-> TRUE,
     error |-> NoError, input |-> <<>>, value |-> <<>>, frees |-> 0,
     panicked |-> FALSE]
NoPend == [via |-> "none", res |-> OkUnit, trigger |-> NoError]
IdleCbk ==
    [state |-> "idle", lis |-> 0, T |-> "null", data |-> NULL, n |-> 0,
     events |-> <<>>, i |-> 0, calls |-> <<>>, uaf |-> FALSE, log0 |-> <<>>]

(* ------------------------ the native platform ------------------------- *)

\* sensor_create_listener: a new, stopped listener without callback
NativeCreate(st) ==
    IF st = SENSOR_ERROR_NONE
    THEN [exists |-> TRUE, started |-> FALSE, cb_fn |-> "null", cb_data |-> NULL]
    ELSE NoListener

\* a registration that also starts delivery
NativeSetEventsCbStarting(n, T, data, st) ==
    IF st = SENSOR_ERROR_NONE
    THEN [n EXCEPT !.cb_fn = T, !.cb_data = data, !.started = TRUE]
    ELSE n

\* sensor_listener_set_events_cb(handle, sensor_listener_handler::<T, U>, data)
NativeSetEventsCb(n, T, data, st) ==
    IF st = SENSOR_ERROR_NONE THEN [n EXCEPT !.cb_fn = T, !.cb_data = data] ELSE n

\* sensor_listener_start
NativeStart(n, st) ==
    IF st = SENSOR_ERROR_NONE THEN [n EXCEPT !.started = TRUE] ELSE n

\* a stop that also removes the callback registration
NativeStopUnregistering(n, st) ==
    IF st = SENSOR_ERROR_NONE
    THEN [n EXCEPT !.started = FALSE, !.cb_fn = "null", !.cb_data = NULL]
    ELSE n

\* sensor_listener_stop
NativeStop(n, st) ==
    IF st = SENSOR_ERROR_NONE THEN [n EXCEPT !.started = FALSE] ELSE n

\* sensor_destroy_listener: on success the resource is gone
NativeDestroy(n, st) ==
    IF st = SENSOR_ERROR_NONE THEN NoListener ELSE n

(* ------------------------ SensorListenerHandle ------------------------ *)

\* a take() that leaves the handle in place
OptionTakeKeeping(h) == h

\* Option::take: what self.0 holds afterwards
OptionTake(h) == None

\* SensorListenerHandle::destroy: the handle left behind, whether the native
\* call was issued, and the Result<()> returned
HandleDestroy(h, st) ==
    IF h # None
    THEN [handle |-> OptionTake(h), called |-> TRUE, res |-> Check(st)]
    ELSE [handle |-> h, called |-> FALSE, res |-> OkUnit]

\* a Drop that leaves the native listener alone
DropHandleForgetting(h, st) == [handle |-> h, called |-> FALSE, res |-> OkUnit]

\* Drop for SensorListenerHandle: `let _ = self.destroy()`
DropHandle(h, st) == HandleDestroy(h, st)

\* the fields of SensorListener in the reverse of their declaration order
FieldDropOrderHandleFirst == <<"handle", "handler", "sensor">>

\* the fields of SensorListener in declaration order, which is the order in
\* which the drop glue drops them
FieldDropOrder == <<"sensor", "handler", "handle">>

\* Sensor<T> is Copy and has nothing to drop; the Box<U> and the
\* SensorListenerHandle have
HasDropGlue(f) == f # "sensor"

\* the drops the drop glue of a SensorListener performs, in order
DropOrder == SelectSeq(FieldDropOrder, HasDropGlue)

(* --------------------------- SensorListener --------------------------- *)

\* one static cell, the lowest, that every listener's handler is stored in
BoxNewShared == CHOOSE a \in Addrs : \A b \in Addrs : a <= b

\* Box::new: the allocator places the box in the first free cell, so a
\* freed cell is reused by the next allocation
BoxNew == CHOOSE a \in Addrs : ~heap[a].live /\ \A b \in 1..(a - 1) : heap[b].live

\* an error value that loses the caller's handler
NewCreateErrDropping(error, handler) ==
    [op |-> "new", ok |-> FALSE, error |-> error, handler |-> NoHandler]

\* new(): Err(SensorListenerError { error, handler }) after a failed
\* sensor_create_listener
NewCreateErr(error, handler) ==
    [op |-> "new", ok |-> FALSE, error |-> error, handler |-> handler]

\* an error value that reports the teardown's error when the teardown failed
NewSetCbErrOfTeardown(error, d) ==
    [op |-> "new", ok |-> FALSE,
     error |-> IF d.ok THEN error ELSE d.error, handler |-> d.handler]

\* new(): Err(SensorListenerError { error, handler:
\* self_.destroy().unwrap_or_else(|e| e.handler) }) after a failed
\* sensor_listener_set_events_cb; d is what self_.destroy() returned
NewSetCbErr(error, d) ==
    [op |-> "new", ok |-> FALSE, error |-> error, handler |-> d.handler]

\* a move that hands out a default handler instead of the boxed one
UnboxHandlerDefault(cell) == Handler(1)

\* `*self.handler`: the value moved out of the Box<U>
UnboxHandler(cell) == cell.val

\* a constructor that starts the listener before returning it
NewOkCallsStarting == <<"sensor_listener_start">>

\* new(): the native calls between the successful callback registration
\* and `Ok(self_)`
NewOkCalls == <<>>

\* the platform's listener after the native calls `calls`, all succeeding
RECURSIVE AfterCalls(_, _)
AfterCalls(n, calls) ==
    IF calls = <<>> THEN n
    ELSE AfterCalls(IF Head(calls) = "sensor_listener_start"
                    THEN NativeStart(n, SENSOR_ERROR_NONE)
                    ELSE IF Head(calls) = "sensor_listener_stop"
                    THEN NativeStop(n, SENSOR_ERROR_NONE)
                    ELSE n,
                    Tail(calls))

\* a match that reports success whatever the native call returned
DestroyResultAlwaysOk(r, h) ==
    [op |-> "destroy", ok |-> TRUE, error |-> NoError, handler |-> h]

\* destroy(): the match on self.handle.destroy(), h being *self.handler
DestroyResult(r, h) ==
    IF r.ok
    THEN [op |-> "destroy", ok |-> TRUE, error |-> NoError, handler |-> h]
    ELSE [op |-> "destroy", ok |-> FALSE, error |-> r.error, handler |-> h]

\* a listener built without its native handle
SomeHandleMissing(l) == None

\* SensorListenerHandle(Some(handle)): the handle field of the listener that
\* new() builds around the native handle of slot l
SomeHandle(l) == l

\* new(), first native call: sensor_create_listener. On failure the handler
\* goes back to the caller at once; on success the handler is boxed and the
\* listener value is built around the new native handle.
NewCreate(l, T, h, st) ==
    /\ ~crashed
    /\ l \in slots
    /\ pc[l] = "uninit"
    /\ passed' = [passed EXCEPT ![l] = [handler |-> h, sensor |-> T]]
    /\ nstat' = [nstat EXCEPT ![l].create = st]
    /\ issued' = [lis |-> l, calls |-> <<"sensor_create_listener">>,
                  st |-> st]
    /\ IF Check(st).ok
       THEN /\ heap' = [heap EXCEPT ![BoxNew] = [live |-> TRUE, val |-> h]]
            /\ obj' = [obj EXCEPT ![l] =
                           [sensor |-> T, box |-> BoxNew,
                            handle |-> SomeHandle(l)]]
            /\ native' = [native EXCEPT ![l] = NativeCreate(st)]
            /\ pc' = [pc EXCEPT ![l] = "new_set_cb"]
            /\ UNCHANGED ret
       ELSE /\ ret' = [ret EXCEPT ![l] = NewCreateErr(Check(st).error, h)]
            /\ pc' = [pc EXCEPT ![l] = "done"]
            /\ UNCHANGED <<heap, obj, native>>
    /\ UNCHANGED <<calc, slots, dropk, pend, destroyCalls, setCbCalls, starts,
                   invoked, cbk, budget, crashed>>

\* new(), second native call: sensor_listener_set_events_cb with the
\* trampoline for <T, U> and the address of the boxed handler. On failure
\* new() goes on to self_.destroy() with the error kept aside.
NewSetCb(l, st) ==
    /\ ~crashed
    /\ pc[l] = "new_set_cb"
    /\ setCbCalls' = [setCbCalls EXCEPT ![l] = @ + 1]
    /\ nstat' = [nstat EXCEPT ![l].set_cb = st]
    /\ issued' = [lis |-> l,
                  calls |-> IF Check(st).ok
                            THEN <<"sensor_listener_set_events_cb">> \o NewOkCalls
                            ELSE <<"sensor_listener_set_events_cb">>,
                  st |-> st]
    /\ native' = [native EXCEPT ![l] =
                     IF Check(st).ok
                     THEN AfterCalls(NativeSetEventsCb(@, obj[l].sensor,
                                                       obj[l].box, st),
                                     NewOkCalls)
                     ELSE NativeSetEventsCb(@, obj[l].sensor, obj[l].box, st)]
    /\ IF Check(st).ok
       THEN /\ ret' = [ret EXCEPT ![l] =
                          [op |-> "new", ok |-> TRUE, error |-> NoError,
                           handler |-> NoHandler]]
            /\ pc' = [pc EXCEPT ![l] = "live"]
            /\ UNCHANGED pend
       ELSE /\ pend' = [pend EXCEPT ![l] =
                           [via |-> "new", res |-> OkUnit,
                            trigger |-> Check(st).error]]
            /\ pc' = [pc EXCEPT ![l] = "new_destroy"]
            /\ UNCHANGED ret
    /\ UNCHANGED <<calc, slots, obj, dropk, heap, passed, destroyCalls, starts,
                   invoked, cbk, budget, crashed>>

\* SensorListener::destroy, first half: self.handle.destroy()
SelfHandleDestroy(l, st) ==
    LET d == HandleDestroy(obj[l].handle, st)
    IN  /\ obj' = [obj EXCEPT ![l].handle = d.handle]
        /\ pend' = [pend EXCEPT ![l].res = d.res]
        /\ IF d.called
           THEN /\ native' = [native EXCEPT ![l] = NativeDestroy(@, st)]
                /\ destroyCalls' = [destroyCalls EXCEPT ![l] = @ + 1]
                /\ nstat' = [nstat EXCEPT ![l].destroy = st]
                /\ issued' = [lis |-> l, calls |-> <<"sensor_destroy_listener">>,
                              st |-> st]
           ELSE /\ issued' = [lis |-> l, calls |-> <<>>,
                              st |-> SENSOR_ERROR_NONE]
                /\ UNCHANGED <<native, destroyCalls, nstat>>
        /\ pc' = [pc EXCEPT ![l] = "destroy_ret"]

\* the caller calls destroy() on a live listener
DestroyCall(l, st) ==
    /\ ~crashed
    /\ pc[l] = "live"
    /\ SelfHandleDestroy(l, st)
    /\ UNCHANGED <<calc, slots, dropk, heap, ret, passed, setCbCalls, starts,
                   invoked, cbk, budget, crashed>>

\* new() calls self_.destroy() after the failed callback registration
NewTeardown(l, st) ==
    /\ ~crashed
    /\ pc[l] = "new_destroy"
    /\ SelfHandleDestroy(l, st)
    /\ UNCHANGED <<calc, slots, dropk, heap, ret, passed, setCbCalls, starts,
                   invoked, cbk, budget, crashed>>

\* a destroy() that borrows the listener and leaves it usable
DestroyedPcBorrowing == "live"

\* destroy(mut self) takes the listener by value: when it returns the
\* caller has no listener left to call anything on
DestroyedPc == "done"

\* SensorListener::destroy, second half: the handler is moved out of its box
\* (which frees the allocation), the result is built, and the rest of self
\* is dropped: the sensor, then the handle, whose Drop calls
\* SensorListenerHandle::destroy once more. When called from new() the
\* result is folded into new()'s error.
DestroyReturn(l, st) ==
    /\ ~crashed
    /\ pc[l] = "destroy_ret"
    /\ LET a == obj[l].box
           h == UnboxHandler(heap[a])
           r == DestroyResult(pend[l].res, h)
           d == DropHandle(obj[l].handle, st)
       IN  /\ heap' = [heap EXCEPT ![a] = FreeCell]
           /\ ret' = [ret EXCEPT ![l] =
                         IF pend[l].via = "new"
                         THEN NewSetCbErr(pend[l].trigger, r)
                         ELSE r]
           /\ obj' = [obj EXCEPT ![l] =
                         [sensor |-> "none", box |-> NULL, handle |-> d.handle]]
           /\ IF d.called
              THEN /\ native' = [native EXCEPT ![l] = NativeDestroy(@, st)]
                   /\ destroyCalls' = [destroyCalls EXCEPT ![l] = @ + 1]
                   /\ nstat' = [nstat EXCEPT ![l].destroy = st]
                   /\ issued' = [lis |-> l,
                                 calls |-> <<"sensor_destroy_listener">>,
                                 st |-> st]
              ELSE /\ issued' = [lis |-> l, calls |-> <<>>,
                                 st |-> SENSOR_ERROR_NONE]
                   /\ UNCHANGED <<native, destroyCalls, nstat>>
    /\ pend' = [pend EXCEPT ![l] = NoPend]
    /\ pc' = [pc EXCEPT ![l] = DestroyedPc]
    /\ UNCHANGED <<calc, slots, dropk, passed, setCbCalls, starts, invoked, cbk,
                   budget, crashed>>

\* a read of the handle that takes it out of the Option
OptionAsRefTaking(h) == None

\* Option::as_ref: what self.handle.0 holds after start() or stop() has read
\* the handle through it
OptionAsRef(h) == h

\* start(): one sensor_listener_start on the stored handle; the expect()
\* panics when the handle is None
Start(l, st) ==
    /\ ~crashed
    /\ pc[l] = "live"
    /\ IF obj[l].handle = None
       THEN /\ ret' = [ret EXCEPT ![l] =
                          [op |-> "panic", ok |-> FALSE, error |-> NoError,
                           handler |-> NoHandler]]
            /\ issued' = [lis |-> l, calls |-> <<>>, st |-> SENSOR_ERROR_NONE]
            /\ UNCHANGED <<native, starts, obj>>
       ELSE /\ native' = [native EXCEPT ![l] = NativeStart(@, st)]
            /\ obj' = [obj EXCEPT ![l].handle = OptionAsRef(@)]
            /\ ret' = [ret EXCEPT ![l] =
                          [op |-> "start", ok |-> Check(st).ok,
                           error |-> Check(st).error, handler |-> NoHandler]]
            /\ issued' = [lis |-> l, calls |-> <<"sensor_listener_start">>,
                          st |-> st]
            /\ starts' = [starts EXCEPT ![l] =
                             IF Check(st).ok \/ @ = "ok" THEN "ok" ELSE "failed"]
    /\ UNCHANGED <<calc, slots, nstat, pc, dropk, pend, heap, passed,
                   destroyCalls, setCbCalls, invoked, cbk, budget, crashed>>

\* stop(): one sensor_listener_stop on the stored handle
Stop(l, st) ==
    /\ ~crashed
    /\ pc[l] = "live"
    /\ IF obj[l].handle = None
       THEN /\ ret' = [ret EXCEPT ![l] =
                          [op |-> "panic", ok |-> FALSE, error |-> NoError,
                           handler |-> NoHandler]]
            /\ issued' = [lis |-> l, calls |-> <<>>, st |-> SENSOR_ERROR_NONE]
            /\ UNCHANGED <<native, obj>>
       ELSE /\ native' = [native EXCEPT ![l] = NativeStop(@, st)]
            /\ obj' = [obj EXCEPT ![l].handle = OptionAsRef(@)]
            /\ ret' = [ret EXCEPT ![l] =
                          [op |-> "stop", ok |-> Check(st).ok,
                           error |-> Check(st).error, handler |-> NoHandler]]
            /\ issued' = [lis |-> l, calls |-> <<"sensor_listener_stop">>,
                          st |-> st]
    /\ UNCHANGED <<calc, slots, nstat, pc, dropk, pend, heap, passed,
                   destroyCalls, setCbCalls, starts, invoked, cbk, budget,
                   crashed>>

\* The listener goes out of scope without destroy() and the drop glue
\* drops the next field that needs dropping: the Box<U> (the allocation is
\* freed) or the SensorListenerHandle (its Drop calls destroy() and discards
\* the result). Nothing is reported to the caller.
DropField(l, st) ==
    /\ ~crashed
    /\ pc[l] \in {"live", "dropping"}
    /\ LET k == IF pc[l] = "live" THEN 0 ELSE dropk[l]
           f == DropOrder[k + 1]
           d == DropHandle(obj[l].handle, st)
       IN  /\ IF f = "handler"
              THEN /\ heap' = [heap EXCEPT ![obj[l].box] = FreeCell]
                   /\ obj' = [obj EXCEPT ![l].box = NULL]
                   /\ issued' = [lis |-> l, calls |-> <<>>,
                                 st |-> SENSOR_ERROR_NONE]
                   /\ UNCHANGED <<native, destroyCalls, nstat>>
              ELSE /\ obj' = [obj EXCEPT ![l].handle = d.handle]
                   /\ IF d.called
                      THEN /\ native' = [native EXCEPT ![l] =
                                            NativeDestroy(@, st)]
                           /\ destroyCalls' =
                                  [destroyCalls EXCEPT ![l] = @ + 1]
                           /\ nstat' = [nstat EXCEPT ![l].destroy = st]
                           /\ issued' = [lis |-> l, calls |->
                                            <<"sensor_destroy_listener">>,
                                         st |-> st]
                      ELSE /\ issued' = [lis |-> l, calls |-> <<>>,
                                         st |-> SENSOR_ERROR_NONE]
                           /\ UNCHANGED <<native, destroyCalls, nstat>>
                   /\ UNCHANGED heap
           /\ dropk' = [dropk EXCEPT ![l] = k + 1]
           /\ IF k + 1 = Len(DropOrder)
              THEN /\ pc' = [pc EXCEPT ![l] = "done"]
                   /\ ret' = [ret EXCEPT ![l] =
                                 [op |-> "drop", ok |-> TRUE,
                                  error |-> NoError, handler |-> NoHandler]]
              ELSE /\ pc' = [pc EXCEPT ![l] = "dropping"]
                   /\ UNCHANGED ret
    /\ UNCHANGED <<calc, slots, pend, passed, setCbCalls, starts, invoked, cbk,
                   budget, crashed>>

(* ---------------------- the callback trampoline ----------------------- *)

\* a loop that leaves out the last event
LoopContinuesShort(i, n) == i < n - 1

\* `for i in 0..event_count as isize`: the loop goes on at index i
LoopContinues(i, n) == i < n

\* a read that always takes the first element of the array
EventAtFirst(events, i) == events[1]

\* `*events.offset(i)`
EventAt(events, i) == events[i + 1]

\* a call without catch_unwind: the panic leaves the trampoline
CatchUnwindMissing(panicked) == IF panicked THEN "unwind" ELSE "continue"

\* `let _ = panic::catch_unwind(..)`: the panic is caught and discarded
CatchUnwind(panicked) == "continue"

\* the event arrays the platform passes with event_count n
Batches(n) == IF n <= 0 THEN {<<>>} ELSE [1..n -> RawEvents]

\* The platform calls the callback registered for listener l, with that
\* registration's context pointer, on its own thread. It delivers only for a
\* listener that exists, is started and has a callback.
Deliver(l, n, events) ==
    /\ ~crashed
    /\ n <= budget
    /\ cbk.state # "running"
    /\ native[l].exists
    /\ native[l].started
    /\ native[l].cb_fn # "null"
    /\ cbk' = [state |-> "running", lis |-> l, T |-> native[l].cb_fn,
               data |-> native[l].cb_data, n |-> n, events |-> events,
               i |-> 0, calls |-> <<>>, uaf |-> FALSE,
               log0 |-> IF heap[native[l].cb_data].live
                        THEN heap[native[l].cb_data].val.log ELSE <<>>]
    /\ budget' = IF n > 0 THEN budget - n ELSE budget
    /\ UNCHANGED <<calc, slots, nstat, pc, obj, dropk, pend, native, heap, ret, passed,
                   issued, destroyCalls, setCbCalls, starts, invoked,
                   crashed>>

\* One iteration of sensor_listener_handler: read event i, decode it with
\* T::Event::from_event and call handler.event() through the context
\* pointer, inside catch_unwind. The handler records the event and then
\* returns or panics. A context pointer whose allocation has been freed is
\* a use of freed memory: the call either goes unnoticed or brings the
\* process down.
TrampolineStep(panicked, outcome) ==
    /\ ~crashed
    /\ cbk.state = "running"
    /\ LoopContinues(cbk.i, cbk.n)
    /\ LET event == EventAt(cbk.events, cbk.i)
           ev == FromEvent(cbk.T, event)
       IN  IF heap[cbk.data].live
           THEN /\ heap' = [heap EXCEPT ![cbk.data].val.log = Append(@, ev)]
                /\ invoked' = [invoked EXCEPT ![cbk.lis] = @ + 1]
                /\ cbk' = [cbk EXCEPT
                              !.calls = Append(@, [raw |-> event, ev |-> ev,
                                                   panicked |-> panicked]),
                              !.i = @ + 1,
                              !.state = IF CatchUnwind(panicked) = "unwind"
                                        THEN "unwound" ELSE @]
                /\ UNCHANGED crashed
           ELSE /\ cbk' = [cbk EXCEPT !.uaf = TRUE, !.i = @ + 1]
                /\ crashed' = (outcome = "abort")
                /\ UNCHANGED <<heap, invoked>>
    /\ UNCHANGED <<calc, slots, nstat, pc, obj, dropk, pend, native, ret, passed, issued,
                   destroyCalls, setCbCalls, starts, budget>>

\* the loop is over: the trampoline returns to the platform
TrampolineReturn ==
    /\ ~crashed
    /\ cbk.state = "running"
    /\ ~LoopContinues(cbk.i, cbk.n)
    /\ cbk' = [cbk EXCEPT !.state = "returned"]
    /\ UNCHANGED <<calc, slots, nstat, pc, obj, dropk, pend, native, heap, ret, passed,
                   issued, destroyCalls, setCbCalls, starts, invoked,
                   budget, crashed>>

(* --------------------------- specification ---------------------------- *)

InitCommon ==
    /\ pc = [l \in Listeners |-> "uninit"]
    /\ obj = [l \in Listeners |-> NoObj]
    /\ dropk = [l \in Listeners |-> 0]
    /\ pend = [l \in Listeners |-> NoPend]
    /\ native = [l \in Listeners |-> NoListener]
    /\ heap = [a \in Addrs |-> FreeCell]
    /\ ret = [l \in Listeners |-> NoRet]
    /\ passed = [l \in Listeners |-> NoPassed]
    /\ nstat = [l \in Listeners |-> NoStat]
    /\ issued = [lis |-> 0, calls |-> <<>>, st |-> SENSOR_ERROR_NONE]
    /\ destroyCalls = [l \in Listeners |-> 0]
    /\ setCbCalls = [l \in Listeners |-> 0]
    /\ starts = [l \in Listeners |-> "never"]
    /\ invoked = [l \in Listeners |-> 0]
    /\ cbk = IdleCbk
    /\ budget = MaxEvents
    /\ crashed = FALSE
    /\ calc = NoCalc

\* one listener, through its whole lifecycle
Init ==
    /\ slots = {1}
    /\ InitCommon

Next ==
    \/ \E l \in Listeners, T \in SensorTypes, h \in Handlers, st \in Statuses :
           NewCreate(l, T, h, st)
    \/ \E l \in Listeners, st \in Statuses : NewSetCb(l, st)
    \/ \E l \in Listeners, st \in Statuses : NewTeardown(l, st)
    \/ \E l \in Listeners, st \in Statuses : Start(l, st)
    \/ \E l \in Listeners, st \in Statuses : Stop(l, st)
    \/ \E l \in Listeners, st \in Statuses : DestroyCall(l, st)
    \/ \E l \in Listeners, st \in Statuses : DestroyReturn(l, st)
    \/ \E l \in Listeners, st \in Statuses : DropField(l, st)
    \/ \E l \in Listeners, n \in -1..MaxEvents :
           \E events \in Batches(n) : Deliver(l, n, events)
    \/ \E panicked \in BOOLEAN, outcome \in {"stale", "abort"} :
           TrampolineStep(panicked, outcome)
    \/ TrampolineReturn

Spec == Init /\ [][Next]_vars

(* ------------------------ several listeners --------------------------- *)

\* the events the platform produces for the sensor behind listener l
EventsFor(l) == {e \in RawEvents : e.timestamp = 1000 * l}

\* the event arrays the platform passes to listener l with event_count n
BatchesFor(l, n) == IF n <= 0 THEN {<<>>} ELSE [1..n -> EventsFor(l)]

\* two listener slots, neither constructed yet
InitShared ==
    /\ slots = {1, 2}
    /\ InitCommon

\* Two listeners alive at the same time: each is constructed with a handler
\* of its own by a new() whose native calls succeed, is started (the start
\* may fail) and stopped, and the platform delivers batches to whichever of
\* them is started, in any order.
NextShared ==
    \/ \E l \in Listeners, T \in SensorTypes :
           NewCreate(l, T, Handler(l), SENSOR_ERROR_NONE)
    \/ \E l \in Listeners : NewSetCb(l, SENSOR_ERROR_NONE)
    \/ \E l \in Listeners, st \in Statuses : Start(l, st)
    \/ \E l \in Listeners : Stop(l, SENSOR_ERROR_NONE)
    \/ \E l \in Listeners, n \in -1..MaxEvents :
           \E events \in BatchesFor(l, n) : Deliver(l, n, events)
    \/ \E panicked \in BOOLEAN, outcome \in {"stale", "abort"} :
           TrampolineStep(panicked, outcome)
    \/ TrampolineReturn

SpecShared == InitShared /\ [][NextShared]_vars

(* ----------------------- the status mappings ------------------------- *)

\* integer codes beyond the documented ones: -MaxCode..MaxCode
MaxCode == 64

SYSTEM_INFO_ERROR_NONE == 0
SYSTEM_INFO_ERROR_INVALID_PARAMETER == -22
SYSTEM_INFO_ERROR_OUT_OF_MEMORY == -12
SYSTEM_INFO_ERROR_IO_ERROR == -5
SYSTEM_INFO_ERROR_PERMISSION_DENIED == -13
SYSTEM_INFO_ERROR_NOT_SUPPORTED == -1073741822

\* info.rs, impl From<c_int> for Error
InfoErrorFrom(i) ==
    CASE i = SYSTEM_INFO_ERROR_INVALID_PARAMETER -> <<"InvalidParameter">>
      [] i = SYSTEM_INFO_ERROR_OUT_OF_MEMORY -> <<"OutOfMemory">>
      [] i = SYSTEM_INFO_ERROR_IO_ERROR -> <<"IoError">>
      [] i = SYSTEM_INFO_ERROR_PERMISSION_DENIED -> <<"PermissionDenied">>
      [] i = SYSTEM_INFO_ERROR_NOT_SUPPORTED -> <<"NotSupported">>
      [] OTHER -> <<"Other", i>>

\* info.rs: if ret == SYSTEM_INFO_ERROR_NONE { Ok } else { Err(Error::from(ret)) }
InfoCheck(i) ==
    IF i = SYSTEM_INFO_ERROR_NONE THEN OkUnit ELSE ErrUnit(InfoErrorFrom(i))

\* the status codes a native call may return
Codes ==
    (-MaxCode..MaxCode) \cup
    {SENSOR_ERROR_NOT_SUPPORTED, SENSOR_ERROR_NOT_NEED_CALIBRATION,
     SENSOR_ERROR_OPERATION_FAILED, SENSOR_ERROR_NOT_AVAILABLE}

\* a status code goes through Error::check of sensors.rs
ErrorCheck(i) ==
    /\ calc' = [NoCalc EXCEPT !.op = "check", !.st = i, !.ok = Check(i).ok,
                              !.error = Check(i).error]
    /\ UNCHANGED listenerVars

\* a status code goes through the success test and From<c_int> of info.rs
InfoErrorCheck(i) ==
    /\ calc' = [NoCalc EXCEPT !.op = "info_check", !.st = i,
                              !.ok = InfoCheck(i).ok,
                              !.error = InfoCheck(i).error]
    /\ UNCHANGED listenerVars

NextCheck ==
    \/ \E i \in Codes : ErrorCheck(i)
    \/ \E i \in Codes : InfoErrorCheck(i)

\* every status code, through both mappings
SpecCheck == Init /\ [][NextCheck]_vars

(* ------------------------ decoding raw events ------------------------- *)

\* values a raw event may carry where a descriptor reads a sub-state code:
\* the codes of the enumerations, integers outside them, and a fraction
StateValues ==
    {F(-3), F(-1), F(0), F(1), F(2), F(3), F(9), F(99), F(0) + 1}

\* the accuracy tags of the raw events: two of the enumeration, one outside
AccuracyTags == {SENSOR_DATA_ACCURACY_UNDEFINED, SENSOR_DATA_ACCURACY_GOOD, 7}

\* raw sensor_event_s records with the eight entries the widest layout
\* (Pedometer) reads; the first and the last vary, the others are distinct
DecodeEvents ==
    { [timestamp |-> 1000, accuracy |-> a,
       values |-> <<v1, F(2), F(3), F(4), F(5), F(6), F(7), v8>>] :
          a \in AccuracyTags, v1 \in StateValues,
          v8 \in {F(-1), F(1), F(2), F(99)} }

\* T::Event::from_event(data) for a descriptor and a raw event, once in a
\* behaviour
Decode(T, data) ==
    /\ calc.op = "none"
    /\ calc' = [NoCalc EXCEPT !.op = "decode",
                              !.input = [T |-> T, data |-> data],
                              !.value = FromEvent(T, data)]
    /\ UNCHANGED listenerVars

NextDecode == \E T \in AllSensorTypes, data \in DecodeEvents : Decode(T, data)

\* every descriptor's decoder on every raw event
SpecDecode == Init /\ [][NextDecode]_vars

(* ------------------ Sensor and system-info functions ------------------ *)

\* handles in a platform-allocated sensor list: at most MaxList
MaxList == 2

\* the sensor handles the platform hands out
SensorHandles == 1..2

\* the arrays sensor_get_sensor_list may allocate, the empty one included
SensorLists ==
    UNION {[1..n -> SensorHandles] : n \in 0..MaxList}

\* the bytes before the NUL of a platform string: plain ASCII, a two-byte
\* UTF-8 sequence, a byte that no UTF-8 text contains, a truncated sequence
PlatformStrings ==
    {<<>>, <<65>>, <<65, 66>>, <<195, 169>>, <<255>>, <<65, 195>>}

\* the keys a caller passes to get_platform_string; 0 is an interior NUL
Keys == {<<107>>, <<107, 0, 107>>}

\* the buffers the platform has allocated for the caller when a native call
\* with an out-pointer returns st: one on success, none on failure
PlatformBuffers(st) == IF st = SENSOR_ERROR_NONE THEN 1 ELSE 0

\* str::from_utf8 as used by CStr::to_str, for texts whose sequences are at
\* most two bytes long (PlatformStrings has no lead byte above 223)
RECURSIVE Utf8Valid(_)
Utf8Valid(b) ==
    IF b = <<>> THEN TRUE
    ELSE IF b[1] < 128 THEN Utf8Valid(Tail(b))
    ELSE IF b[1] \in 194..223 /\ Len(b) >= 2 /\ b[2] \in 128..191
         THEN Utf8Valid(SubSeq(b, 3, Len(b)))
         ELSE FALSE

\* a failing native call made a second time
NativeRetrying(fn, st) ==
    IF st = SENSOR_ERROR_NONE THEN <<fn>> ELSE <<fn, fn>>

\* let ret = unsafe { fn(..) }: the native function is called once, whatever
\* status it returns
NativeOnce(fn, st) == <<fn>>

\* what a call leaves in calc
Call(op, calls, st, r, input, value, panicked) ==
    [op |-> op, calls |-> calls, st |-> st, ok |-> r.ok, error |-> r.error,
     input |-> input, value |-> value,
     frees |-> Cardinality({k \in 1..Len(calls) : calls[k] = "libc::free"}),
     panicked |-> panicked]

\* a function of one native call and a plain out-value: get_default,
\* is_wake_up, is_supported. Error::check(ret)? returns the mapped error;
\* otherwise the out-value is returned.
OneCall(op, fn, st, out) ==
    LET r == Check(st)
    IN  Call(op, NativeOnce(fn, st), st, r, out,
             IF r.ok THEN <<out>> ELSE <<>>, FALSE)

\* Sensor::get_default
GetDefault(st, h) ==
    OneCall("get_default", "sensor_get_default_sensor", st, h)

\* Sensor::is_wake_up
IsWakeUp(st, b) == OneCall("is_wake_up", "sensor_is_wake_up", st, b)

\* SensorType::is_supported
IsSupported(st, b) == OneCall("is_supported", "sensor_is_supported", st, b)

\* a release that is skipped when there is nothing to copy
GetListStepsNonEmpty(count) ==
    IF count > 0 THEN <<"copy", "libc::free">> ELSE <<>>

\* get_list after Error::check: the handles are collected into a Vec, then
\* libc::free(list_ptr), for every count
GetListSteps(count) == <<"copy", "libc::free">>

\* (0..sensor_count as isize).map(|i| *list_ptr.offset(i)).collect()
ListCopy(arr, count) ==
    [i \in 1..(IF count > 0 THEN count ELSE 0) |-> arr[i]]

\* Sensor::get_list; arr is the array the platform allocated on success and
\* its length the count it reported
GetList(st, arr) ==
    LET r == Check(st)
        fn == "sensor_get_sensor_list"
    IN  IF r.ok
        THEN Call("get_list", NativeOnce(fn, st) \o GetListSteps(Len(arr)),
                  st, r, arr, ListCopy(arr, Len(arr)), FALSE)
        ELSE Call("get_list", NativeOnce(fn, st), st, r, <<>>, <<>>, FALSE)

\* CStr::from_ptr(p).to_str().unwrap(): panics unless the bytes are UTF-8
ToStrUnwrap(b) ==
    [panicked |-> ~Utf8Valid(b), str |-> IF Utf8Valid(b) THEN b ELSE <<>>]

\* the unsafe block of name() and get_platform_string(): the text is
\* converted and copied (to_str().unwrap().to_owned()) and only then is the
\* buffer passed to libc::free; a panic in unwrap() leaves the block at once
CopyThenFree(fn, st, b) ==
    IF ToStrUnwrap(b).panicked
    THEN NativeOnce(fn, st)
    ELSE NativeOnce(fn, st) \o <<"copy", "libc::free">>

\* Sensor::name; b is the text the platform allocated on success
Name(st, b) ==
    LET r == Check(st)
        fn == "sensor_get_name"
    IN  IF r.ok
        THEN Call("name", CopyThenFree(fn, st, b), st, r, b,
                  ToStrUnwrap(b).str, ToStrUnwrap(b).panicked)
        ELSE Call("name", NativeOnce(fn, st), st, r, <<>>, <<>>, FALSE)

\* info.rs get_platform_string; CString::new(key).unwrap() panics on a key
\* with an interior NUL, before the native call
GetPlatformString(key, st, b) ==
    LET r == InfoCheck(st)
        fn == "system_info_get_platform_string"
    IN  IF \E k \in 1..Len(key) : key[k] = 0
        THEN Call("get_platform_string", <<>>, SYSTEM_INFO_ERROR_NONE, OkUnit,
                  <<>>, <<>>, TRUE)
        ELSE IF r.ok
        THEN Call("get_platform_string", CopyThenFree(fn, st, b), st, r, b,
                  ToStrUnwrap(b).str, ToStrUnwrap(b).panicked)
        ELSE Call("get_platform_string", NativeOnce(fn, st), st, r, <<>>,
                  <<>>, FALSE)

\* the caller calls Sensor::get_default; calc holds what the call did
CallGetDefault(st, h) ==
    /\ calc' = GetDefault(st, h)
    /\ UNCHANGED listenerVars

\* the caller calls Sensor::is_wake_up; calc holds what the call did
CallIsWakeUp(st, b) ==
    /\ calc' = IsWakeUp(st, b)
    /\ UNCHANGED listenerVars

\* the caller calls T::is_supported; calc holds what the call did
CallIsSupported(st, b) ==
    /\ calc' = IsSupported(st, b)
    /\ UNCHANGED listenerVars

\* the caller calls Sensor::get_list; calc holds what the call did
CallGetList(st, arr) ==
    /\ calc' = GetList(st, arr)
    /\ UNCHANGED listenerVars

\* the caller calls Sensor::name; calc holds what the call did
CallName(st, b) ==
    /\ calc' = Name(st, b)
    /\ UNCHANGED listenerVars

\* the caller calls get_platform_string; calc holds what the call did
CallGetPlatformString(key, st, b) ==
    /\ calc' = GetPlatformString(key, st, b)
    /\ UNCHANGED listenerVars

NextOps ==
    \/ \E st \in Statuses, h \in SensorHandles : CallGetDefault(st, h)
    \/ \E st \in Statuses, b \in BOOLEAN : CallIsWakeUp(st, b)
    \/ \E st \in Statuses, b \in BOOLEAN : CallIsSupported(st, b)
    \/ \E st \in Statuses, arr \in SensorLists : CallGetList(st, arr)
    \/ \E st \in Statuses, b \in PlatformStrings : CallName(st, b)
    \/ \E key \in Keys, st \in Statuses, b \in PlatformStrings :
           CallGetPlatformString(key, st, b)
    \/ \E l \in Listeners, T \in SensorTypes, h \in Handlers, st \in Statuses :
           NewCreate(l, T, h, st)
    \/ \E l \in Listeners, st \in Statuses : NewSetCb(l, st)
    \/ \E l \in Listeners, st \in Statuses : NewTeardown(l, st)
    \/ \E l \in Listeners, st \in Statuses : Start(l, st)
    \/ \E l \in Listeners, st \in Statuses : Stop(l, st)
    \/ \E l \in Listeners, st \in Statuses : DestroyCall(l, st)
    \/ \E l \in Listeners, st \in Statuses : DestroyReturn(l, st)
    \/ \E l \in Listeners, st \in Statuses : DropField(l, st)

\* every wrapper operation the caller can invoke, the platform delivering
\* no events
SpecOps == Init /\ [][NextOps]_vars

(* ------------------------------ claims -------------------------------- *)

\* the documented error codes and the error kind of each
DocumentedErrors ==
    { <<SENSOR_ERROR_INVALID_PARAMETER, "InvalidParameter">>,
      <<SENSOR_ERROR_OUT_OF_MEMORY, "OutOfMemory">>,
      <<SENSOR_ERROR_IO_ERROR, "IoError">>,
      <<SENSOR_ERROR_PERMISSION_DENIED, "PermissionDenied">>,
      <<SENSOR_ERROR_NOT_SUPPORTED, "NotSupported">>,
      <<SENSOR_ERROR_NO_DATA, "NoData">>,
      <<SENSOR_ERROR_NOT_NEED_CALIBRATION, "NotNeedCalibration">>,
      <<SENSOR_ERROR_OPERATION_FAILED, "OperationFailed">>,
      <<SENSOR_ERROR_NOT_AVAILABLE, "NotAvailable">> }

\* the error a non-success status is expected to map to
ExpectedError(st) ==
    IF \E p \in DocumentedErrors : p[1] = st
    THEN <<(CHOOSE p \in DocumentedErrors : p[1] = st)[2]>>
    ELSE <<"Other", st>>

\* C1: sensor_destroy_listener is issued at most once for a listener's
\* handle, and once it has been issued any further destruction request on
\* that handle issues no native call and reports success.
C1_DestroyedAtMostOnce ==
    \A l \in Listeners :
        /\ destroyCalls[l] <= 1
        /\ destroyCalls[l] = 1 =>
              \A st \in Statuses :
                  /\ ~HandleDestroy(obj[l].handle, st).called
                  /\ HandleDestroy(obj[l].handle, st).res = OkUnit

\* an explicit destroy() followed by the drop of the consumed listener: two
\* teardown requests, one native call
C1_Witness ==
    \E l \in Listeners :
        pc[l] = "done" /\ ret[l].op = "destroy" /\ destroyCalls[l] = 1

\* C2: while the native listener exists with its callback registered, the
\* handler allocation the callback context points to is live and owned by
\* the listener, and no trampoline invocation meets a freed context.
C2_HandlerOutlivesCallback ==
    /\ \A l \in Listeners :
          (native[l].exists /\ native[l].cb_fn # "null") =>
              /\ heap[native[l].cb_data].live
              /\ obj[l].box = native[l].cb_data
    /\ ~cbk.uaf

\* C3: a panic of the handler never leaves the trampoline, and after a
\* panic on event i every later event of the batch is still delivered, in
\* array order.
C3_PanicIsolated ==
    /\ cbk.state # "unwound"
    /\ (cbk.state = "returned" /\ ~cbk.uaf) =>
          \A i \in 1..Len(cbk.calls) :
              cbk.calls[i].panicked =>
                  \A j \in (i + 1)..cbk.n :
                      /\ j <= Len(cbk.calls)
                      /\ cbk.calls[j].raw = cbk.events[j]

\* a batch of 3 events whose 2nd invocation panicked, and 3 handler calls
C3_Witness ==
    /\ cbk.state = "returned"
    /\ ~cbk.uaf
    /\ cbk.n = 3
    /\ Len(cbk.calls) = 3
    /\ ~cbk.calls[1].panicked
    /\ cbk.calls[2].panicked
    /\ cbk.calls[3].raw = cbk.events[3]

\* C4: a trampoline invocation with event count n invokes the handler
\* exactly max(n, 0) times, the i-th time with the decoding of the i-th raw
\* event under the descriptor the listener was constructed with, and the
\* handler receives exactly these events in this order.
C4_EachEventOnceInOrder ==
    (cbk.state = "returned" /\ ~cbk.uaf) =>
        /\ Len(cbk.calls) = (IF cbk.n > 0 THEN cbk.n ELSE 0)
        /\ \A i \in 1..Len(cbk.calls) :
              /\ cbk.calls[i].raw = cbk.events[i]
              /\ cbk.calls[i].ev =
                     FromEvent(passed[cbk.lis].sensor, cbk.events[i])
        /\ (obj[cbk.lis].box = cbk.data /\ heap[cbk.data].live) =>
              heap[cbk.data].val.log =
                  cbk.log0 \o [i \in 1..Len(cbk.calls) |-> cbk.calls[i].ev]

\* a completed batch of two different events for a Proximity listener
C4_Witness ==
    /\ cbk.state = "returned"
    /\ ~cbk.uaf
    /\ cbk.n = 2
    /\ cbk.events[1] # cbk.events[2]
    /\ passed[cbk.lis].sensor = "Proximity"
    /\ heap[cbk.data].live
    /\ Len(heap[cbk.data].val.log) = 2

\* C5: when sensor_create_listener fails, new() returns Err with the handler
\* passed in and the mapping of the status, and neither a callback
\* registration nor a native listener exists.
C5_CreateFailureReturnsHandler ==
    \A l \in Listeners :
        (pc[l] # "uninit" /\ nstat[l].create # SENSOR_ERROR_NONE) =>
            /\ pc[l] = "done"
            /\ ret[l].op = "new"
            /\ ~ret[l].ok
            /\ ret[l].handler = passed[l].handler
            /\ ret[l].error = ExpectedError(nstat[l].create)
            /\ setCbCalls[l] = 0
            /\ destroyCalls[l] = 0
            /\ native[l] = NoListener
            /\ obj[l] = NoObj

\* new() failed at sensor_create_listener with an undocumented status
C5_Witness ==
    \E l \in Listeners :
        /\ pc[l] = "done"
        /\ nstat[l].create = UndocumentedStatus
        /\ ret[l].handler = Handler(NumHandlers)

\* C6: when sensor_listener_set_events_cb fails in new(), the native
\* listener gets one sensor_destroy_listener call before new() returns and
\* none afterwards, and new() returns Err with the handler passed in and
\* the error of the failed registration, whatever the teardown returned.
C6_RegistrationFailureTearsDown ==
    \A l \in Listeners :
        (setCbCalls[l] = 1 /\ nstat[l].set_cb # SENSOR_ERROR_NONE) =>
            /\ pc[l] \in {"new_destroy", "destroy_ret", "done"}
            /\ pc[l] = "done" =>
                  /\ ret[l].op = "new"
                  /\ ~ret[l].ok
                  /\ ret[l].handler = passed[l].handler
                  /\ ret[l].error = ExpectedError(nstat[l].set_cb)
                  /\ destroyCalls[l] = 1
                  /\ obj[l].handle = None
                  /\ native[l].cb_fn = "null"

\* new() failed at the registration and the teardown failed with another
\* status
C6_Witness ==
    \E l \in Listeners :
        /\ pc[l] = "done"
        /\ setCbCalls[l] = 1
        /\ nstat[l].set_cb = SENSOR_ERROR_INVALID_PARAMETER
        /\ nstat[l].destroy = UndocumentedStatus
        /\ destroyCalls[l] = 1

\* C7: destroy() returns Ok exactly when the native destroy call reported
\* success and otherwise Err with the mapped error; either way the result
\* carries the handler the listener owned, with every event it was given.
C7_DestroyReturnsHandler ==
    \A l \in Listeners :
        (pc[l] = "done" /\ ret[l].op = "destroy") =>
            /\ ret[l].ok <=> (nstat[l].destroy = SENSOR_ERROR_NONE)
            /\ ret[l].ok => ret[l].error = NoError
            /\ ~ret[l].ok => ret[l].error = ExpectedError(nstat[l].destroy)
            /\ ret[l].handler.id = passed[l].handler.id
            /\ Len(ret[l].handler.log) = invoked[l]

\* a destroy() whose native call failed, on a listener whose handler had
\* received events
C7_Witness ==
    \E l \in Listeners :
        /\ pc[l] = "done"
        /\ ret[l].op = "destroy"
        /\ ~ret[l].ok
        /\ Len(ret[l].handler.log) > 0

\* C8: a listener dropped without destroy() gets exactly one native destroy
\* call, whose failure is not reported; after an explicit destroy() the
\* drop that follows issues no native destroy call.
C8_DropDestroysOnce ==
    \A l \in Listeners :
        pc[l] = "done" =>
            /\ ret[l].op = "drop" => (destroyCalls[l] = 1 /\ ret[l].ok)
            /\ ret[l].op = "destroy" =>
                  /\ destroyCalls[l] = 1
                  /\ issued.lis = l => issued.calls = <<>>

\* a listener dropped without destroy() whose native destroy call failed
C8_Witness ==
    \E l \in Listeners :
        /\ pc[l] = "done"
        /\ ret[l].op = "drop"
        /\ nstat[l].destroy # SENSOR_ERROR_NONE
        /\ destroyCalls[l] = 1

\* C9: new() then destroy() with no start() in between and a successful
\* native destroy returns Ok with the handler passed to new(), which was
\* never invoked.
C9_NewDestroyRoundTrip ==
    \A l \in Listeners :
        (pc[l] = "done" /\ ret[l].op = "destroy" /\ starts[l] = "never"
         /\ nstat[l].destroy = SENSOR_ERROR_NONE) =>
            /\ ret[l].ok
            /\ ret[l].handler = passed[l].handler
            /\ invoked[l] = 0

\* the round trip, made with the last of the handlers
C9_Witness ==
    \E l \in Listeners :
        /\ pc[l] = "done"
        /\ ret[l].op = "destroy"
        /\ starts[l] = "never"
        /\ ret[l].ok
        /\ passed[l].handler = Handler(NumHandlers)

\* C10: a listener is created stopped and new() issues no
\* sensor_listener_start; the handler is not invoked before a start() has
\* succeeded; the callback is registered once, and start() and stop() leave
\* the registration of a live listener in place.
C10_CreatedStopped ==
    \A l \in Listeners :
        /\ starts[l] # "ok" =>
              /\ invoked[l] = 0
              /\ ~native[l].started
              /\ cbk.lis # l
        /\ setCbCalls[l] <= 1
        /\ pc[l] = "live" =>
              /\ native[l].exists
              /\ native[l].cb_fn = passed[l].sensor
              /\ native[l].cb_data = obj[l].box
        /\ (issued.lis = l /\ ret[l].op \in {"none", "new"}) =>
              \A k \in 1..Len(issued.calls) :
                  issued.calls[k] # "sensor_listener_start"

\* a live listener that was started, received events and was stopped again
C10_Witness ==
    \E l \in Listeners :
        /\ pc[l] = "live"
        /\ starts[l] = "ok"
        /\ invoked[l] > 0
        /\ ret[l].op = "stop"
        /\ ret[l].ok
        /\ ~native[l].started

\* C11: start() and stop() can be called any number of times, in any order,
\* on a live listener: a live listener always holds its native handle, so
\* the "No sensor listener handle" panic never happens, and each call issues
\* exactly one native call (sensor_listener_start for start(),
\* sensor_listener_stop for stop()) and returns the status of that call,
\* mapped: Ok for success, the error kind of the code otherwise.
C11_StartStopNeverPanic ==
    \A l \in Listeners :
        /\ ret[l].op # "panic"
        /\ pc[l] = "live" => obj[l].handle # None
        /\ (pc[l] = "live" /\ issued.lis = l /\ ret[l].op \in {"start", "stop"}) =>
              /\ issued.calls = <<"sensor_listener_" \o ret[l].op>>
              /\ ret[l].ok = (issued.st = SENSOR_ERROR_NONE)
              /\ ret[l].error = IF issued.st = SENSOR_ERROR_NONE
                                THEN NoError
                                ELSE ExpectedError(issued.st)

\* a stop() that failed with an undocumented code, on a listener whose
\* start() had succeeded before: at least two calls, in either order
C11_Witness ==
    \E l \in Listeners :
        /\ pc[l] = "live"
        /\ starts[l] = "ok"
        /\ ret[l].op = "stop"
        /\ ret[l].error = <<"Other", UndocumentedStatus>>
        /\ issued.calls = <<"sensor_listener_stop">>

\* the native calls that act on a listener that must still exist
UseCalls ==
    {"sensor_listener_start", "sensor_listener_stop",
     "sensor_listener_set_events_cb"}

\* C12: Destroyed is terminal. Once sensor_destroy_listener has been issued
\* for a listener's handle (by destroy(), by the failure path of new(), or
\* by drop), the caller has no listener left to call start(), stop() or
\* new()'s registration on, and no later step of the wrapper issues a native
\* start, stop or set-callback call on that handle.
C12_DestroyedIsTerminal ==
    \A l \in Listeners :
        destroyCalls[l] >= 1 =>
            /\ pc[l] \in {"destroy_ret", "done"}
            /\ issued.lis = l =>
                  \A k \in 1..Len(issued.calls) : issued.calls[k] \notin UseCalls

\* destroy() has returned after a native destroy that failed: the native
\* listener still exists, started, and the wrapper is done with it
C12_Witness ==
    \E l \in Listeners :
        /\ destroyCalls[l] = 1
        /\ pc[l] = "done"
        /\ ret[l].op = "destroy"
        /\ ~ret[l].ok
        /\ native[l].exists
        /\ native[l].started

\* the documented error codes of info.rs and the error kind of each
InfoDocumentedErrors ==
    { <<SYSTEM_INFO_ERROR_INVALID_PARAMETER, "InvalidParameter">>,
      <<SYSTEM_INFO_ERROR_OUT_OF_MEMORY, "OutOfMemory">>,
      <<SYSTEM_INFO_ERROR_IO_ERROR, "IoError">>,
      <<SYSTEM_INFO_ERROR_PERMISSION_DENIED, "PermissionDenied">>,
      <<SYSTEM_INFO_ERROR_NOT_SUPPORTED, "NotSupported">> }

\* what a status code is expected to map to, given the documented codes
ExpectedResult(docs, st) ==
    IF st = 0 THEN OkUnit
    ELSE IF \E p \in docs : p[1] = st
         THEN ErrUnit(<<(CHOOSE p \in docs : p[1] = st)[2]>>)
         ELSE ErrUnit(<<"Other", st>>)

\* C13: the mapping from native status codes is total: zero yields Ok, each
\* documented error code yields its own error kind (nine kinds in
\* sensors.rs, five in info.rs, no two codes sharing a kind), and every
\* other integer code c yields Other(c) with c unchanged.
C13_StatusMappingTotal ==
    /\ Cardinality({p[1] : p \in DocumentedErrors}) = 9
    /\ Cardinality({p[2] : p \in DocumentedErrors}) = 9
    /\ Cardinality({p[2] : p \in InfoDocumentedErrors}) = 5
    /\ calc.op = "check" =>
          [ok |-> calc.ok, error |-> calc.error]
              = ExpectedResult(DocumentedErrors, calc.st)
    /\ calc.op = "info_check" =>
          [ok |-> calc.ok, error |-> calc.error]
              = ExpectedResult(InfoDocumentedErrors, calc.st)

\* an undocumented code has gone through Error::check and come back in Other
C13_Witness ==
    /\ calc.op = "check"
    /\ calc.st = MaxCode
    /\ ~calc.ok
    /\ calc.error = <<"Other", MaxCode>>

\* no entry of a sequence of calls occurs twice
NoRepeat(calls) ==
    \A i, j \in 1..Len(calls) : i # j => calls[i] # calls[j]

\* the Sensor functions of one native call each
SensorOps == {"get_default", "get_list", "name", "is_wake_up", "is_supported"}

\* C14: no wrapper operation retries a native call. Within one invocation of
\* get_default, get_list, name, is_wake_up, is_supported, new, start, stop or
\* destroy each native function is called at most once; a call's status is
\* checked before any further native call of the operation (after a failed
\* call a Sensor function, start, stop and destroy make no further call,
\* and new() makes none after a failed create and only the teardown's
\* destroy after a failed registration); and a non-success status goes back
\* to the immediate caller as the mapped error.
C14_NoRetry ==
    /\ calc.op \in SensorOps =>
          /\ NoRepeat(calc.calls)
          /\ Len(calc.calls) >= 1
          /\ calc.st # SENSOR_ERROR_NONE =>
                /\ Len(calc.calls) = 1
                /\ ~calc.panicked
                /\ [ok |-> calc.ok, error |-> calc.error]
                       = ErrUnit(ExpectedError(calc.st))
    /\ NoRepeat(issued.calls)
    /\ \A l \in Listeners :
          /\ destroyCalls[l] <= 1
          /\ setCbCalls[l] <= 1
          /\ nstat[l].create # SENSOR_ERROR_NONE =>
                /\ setCbCalls[l] = 0
                /\ destroyCalls[l] = 0
                /\ ret[l].op = "new"
                /\ ret[l].error = ExpectedError(nstat[l].create)
          /\ (nstat[l].set_cb # SENSOR_ERROR_NONE /\ pc[l] = "done") =>
                /\ ret[l].op = "new"
                /\ ret[l].error = ExpectedError(nstat[l].set_cb)
          /\ (pc[l] = "destroy_ret" /\ destroyCalls[l] = 1) =>
                pend[l].res = ExpectedResult(DocumentedErrors, nstat[l].destroy)
          /\ ret[l].op = "destroy" =>
                [ok |-> ret[l].ok, error |-> ret[l].error]
                    = ExpectedResult(DocumentedErrors, nstat[l].destroy)
          /\ (issued.lis = l /\ pc[l] = "live"
                 /\ ret[l].op \in {"start", "stop"}) =>
                /\ Len(issued.calls) = 1
                /\ [ok |-> ret[l].ok, error |-> ret[l].error]
                       = ExpectedResult(DocumentedErrors, issued.st)

\* get_list has failed after its one native call, and a new() whose
\* registration failed has made its one teardown call, which failed too
C14_Witness ==
    /\ calc.op = "get_list"
    /\ calc.calls = <<"sensor_get_sensor_list">>
    /\ calc.error = <<"InvalidParameter">>
    /\ \E l \in Listeners :
          /\ pc[l] = "done"
          /\ ret[l].op = "new"
          /\ nstat[l].set_cb = UndocumentedStatus
          /\ nstat[l].destroy = SENSOR_ERROR_INVALID_PARAMETER
          /\ destroyCalls[l] = 1
          /\ setCbCalls[l] = 1

\* the sub-state codes each enumeration documents
ProximityCodes == {SENSOR_PROXIMITY_NEAR, SENSOR_PROXIMITY_FAR}
PedometerCodes ==
    {SENSOR_PEDOMETER_STATE_UNKNOWN, SENSOR_PEDOMETER_STATE_STOP,
     SENSOR_PEDOMETER_STATE_WALK, SENSOR_PEDOMETER_STATE_RUN}
SleepCodes ==
    {SENSOR_SLEEP_STATE_UNKNOWN, SENSOR_SLEEP_STATE_WAKE,
     SENSOR_SLEEP_STATE_SLEEP}
HrmBatchCodes ==
    {SENSOR_HRM_BATCH_STATE_NODATA_FLUSH,
     SENSOR_HRM_BATCH_STATE_VERYLOW_RELIABILITY,
     SENSOR_HRM_BATCH_STATE_LOW_RELIABILITY,
     SENSOR_HRM_BATCH_STATE_DETACHED_AUTO, SENSOR_HRM_BATCH_STATE_DETACHED,
     SENSOR_HRM_BATCH_STATE_DETECT_MOVE, SENSOR_HRM_BATCH_STATE_ATTACHED,
     SENSOR_HRM_BATCH_STATE_NONE, SENSOR_HRM_BATCH_STATE_OK}

\* a float that encodes an integer which is none of the given codes
Unrecognized(f, codes) ==
    /\ f % FScale = 0
    /\ \A c \in codes : f # F(c)

\* C15: for every unrecognized float-encoded sub-state code decoding does
\* not fail and yields the fallback: Proximity, Pedometer state and
\* SleepMonitor state decode to Unknown, HeartRateMonitorBatch state to
\* Unknown carrying the raw float.
C15_UnrecognizedIsUnknown ==
    calc.op = "decode" =>
        LET T == calc.input.T
            raw == calc.input.data.values
            ev == calc.value
        IN  /\ (T = "Proximity" /\ Unrecognized(raw[1], ProximityCodes)) =>
                  ev.kind = "Proximity.Unknown"
            /\ (T = "Pedometer" /\ Unrecognized(raw[8], PedometerCodes)) =>
                  ev.last_state = <<"Unknown">>
            /\ (T = "SleepMonitor" /\ Unrecognized(raw[1], SleepCodes)) =>
                  ev.last_state = <<"Unknown">>
            /\ (T = "HeartRateMonitorBatch"
                   /\ Unrecognized(raw[1], HrmBatchCodes)) =>
                  ev.state = <<"Unknown", raw[1]>>

\* the variant a Proximity raw event with values[0] = f decodes to, when
\* such an event has been decoded
ProximityOf(f) ==
    IF calc.op = "decode" /\ calc.input.T = "Proximity"
           /\ calc.input.data.values[1] = f
    THEN calc.value.kind
    ELSE "none"

Floats(fields) == [k \in 1..Len(fields) |-> <<fields[k], "f32">>]
Layout(T) ==
    CASE T \in {"Accelerometer", "Gravity", "LinearAcceleration", "Magnetic",
                "Gyroscope"} -> Floats(<<"x", "y", "z">>)
      [] T \in {"RotationVector", "GyroscopeRotationVector",
                "GeomagneticRotationVector"} -> Floats(<<"x", "y", "z", "w">>)
      [] T = "Orientation" -> Floats(<<"azimuth", "pitch", "roll">>)
      [] T = "Light" -> Floats(<<"level">>)
      [] T = "Proximity" -> <<>>
      [] T = "Pressure" -> Floats(<<"pressure">>)
      [] T = "Ultraviolet" -> Floats(<<"uv_index">>)
      [] T = "Temperature" -> Floats(<<"temperature">>)
      [] T = "Humidity" -> Floats(<<"humidity">>)
      [] T = "HeartRateMonitor" -> Floats(<<"bpm">>)
      [] T = "HeartRateMonitorGreenLed" -> Floats(<<"green_light">>)
      [] T = "HeartRateMonitorRedLed" -> Floats(<<"red_light">>)
      [] T = "HeartRateMonitorInfraredLed" -> Floats(<<"infrared_light">>)
      [] T = "UncalibratedGyroscope" ->
             Floats(<<"x", "y", "z", "x_drift", "y_drift", "z_drift">>)
      [] T = "UncalibratedMagnetic" ->
             Floats(<<"x", "y", "z", "x_bias", "y_bias", "z_bias">>)
      [] T = "SignificantMotion" -> Floats(<<"value">>)
      [] T = "HeartRateMonitorBatch" ->
             <<<<"state", "hrm_state">>>>
                 \o [k \in 1..2 |-> Floats(<<"bpm", "r_to_r_interval">>)[k]]
      [] T = "HeartRateMonitorGreenLedBatch" ->
             [k \in 1..4 |-> Floats(<<"green_light", "x", "y", "z">>)[k]]
                 \o <<<<"index", "usize">>>>
      [] T = "Pedometer" ->
             << <<"steps", "u32">>, <<"walking_steps", "u32">>,
                <<"running_steps", "u32">>, <<"moving_distance", "f32">>,
                <<"calories_burned", "f32">>, <<"last_speed", "f32">>,
                <<"last_stepping_frequency", "f32">>,
                <<"last_state", "pedometer_state">> >>
      [] T = "SleepMonitor" -> << <<"last_state", "sleep_state">> >>

\* a state field is decoded from the raw entry by its sub-state decoder
StateFieldOk(type, field, raw) ==
    CASE type = "hrm_state" -> field = HeartRateMonitorBatchStateFrom(raw)
      [] type = "pedometer_state" -> field = PedometerStateFrom(raw)
      [] type = "sleep_state" -> field = SleepMonitorStateFrom(raw)

\* C17 as stated: for every supported descriptor the decoded record has the
\* raw timestamp, and every field equals the raw array entry at its
\* documented index, passed through without conversion (a count holds the
\* same number as the raw entry; a state field is decoded from its entry).
C17_PassThroughEveryDescriptor ==
    calc.op = "decode" =>
        LET T == calc.input.T
            data == calc.input.data
            ev == calc.value
        IN  /\ "timestamp" \in DOMAIN ev
            /\ ev.timestamp = data.timestamp
            /\ \A k \in 1..Len(Layout(T)) :
                  LET f == Layout(T)[k][1]
                      type == Layout(T)[k][2]
                  IN  CASE type = "f32" -> ev[f] = data.values[k]
                        [] type \in {"u32", "usize"} -> F(ev[f]) = data.values[k]
                        [] OTHER -> StateFieldOk(type, ev[f], data.values[k])

\* C17, amended: for every supported descriptor other than Proximity the
\* decoded record has the raw timestamp and every f32 field equals the raw
\* array entry at its documented index, unchanged; the integer fields
\* (Pedometer steps, walking_steps, running_steps and the
\* HeartRateMonitorGreenLedBatch index) are the raw entries cast to an
\* unsigned integer, the state fields are decoded from their raw entry, and
\* the accuracy of the three rotation vectors from the accuracy tag.
\* Proximity decodes to a bare Near / Far / Unknown value with no timestamp.
C17_PassThrough ==
    calc.op = "decode" =>
        LET T == calc.input.T
            data == calc.input.data
            ev == calc.value
        IN  /\ T = "Proximity" => DOMAIN ev = {"kind"}
            /\ T # "Proximity" =>
                  /\ ev.timestamp = data.timestamp
                  /\ ev.kind = T
            /\ "accuracy" \in DOMAIN ev =>
                  ev.accuracy = AccuracyFrom(data.accuracy)
            /\ DOMAIN ev \subseteq
                  {"kind", "timestamp", "accuracy"}
                      \cup {Layout(T)[k][1] : k \in 1..Len(Layout(T))}
            /\ \A k \in 1..Len(Layout(T)) :
                  LET f == Layout(T)[k][1]
                      type == Layout(T)[k][2]
                  IN  CASE type = "f32" -> ev[f] = data.values[k]
                        [] type = "u32" -> ev[f] = AsU32(data.values[k])
                        [] type = "usize" -> ev[f] = AsUsize(data.values[k])
                        [] OTHER -> StateFieldOk(type, ev[f], data.values[k])

\* a Pedometer event has been decoded: one step, the four float fields
\* from entries 3..6, the state Walk from entry 7
C17_Witness ==
    /\ calc.op = "decode"
    /\ calc.input.T = "Pedometer"
    /\ calc.input.data.values[1] = F(1)
    /\ calc.value.timestamp = 1000
    /\ calc.value.steps = 1
    /\ calc.value.walking_steps = 2
    /\ calc.value.moving_distance = F(4)
    /\ calc.value.last_stepping_frequency = F(7)
    /\ calc.value.last_state = <<"Walk">>

\* C18: get_list() releases the platform-allocated handle array exactly
\* once, after copying the handles out of it, for every count including
\* zero, and returns the handles in array order; when the native call fails
\* nothing is released and the mapped error is returned.
C18_GetListReleasesOnce ==
    calc.op = "get_list" =>
        IF calc.st = SENSOR_ERROR_NONE
        THEN /\ calc.ok
             /\ calc.value = calc.input
             /\ calc.frees = PlatformBuffers(calc.st)
             /\ calc.calls = <<"sensor_get_sensor_list", "copy", "libc::free">>
        ELSE /\ ~calc.ok
             /\ calc.error = ExpectedError(calc.st)
             /\ calc.frees = 0
             /\ calc.calls = <<"sensor_get_sensor_list">>

\* get_list() has returned an empty list and released the array once
C18_Witness ==
    /\ calc.op = "get_list"
    /\ calc.ok
    /\ calc.input = <<>>
    /\ calc.value = <<>>
    /\ calc.frees = 1

\* C19: every platform-allocated string buffer obtained from a successful
\* native call in name() or get_platform_string() is released exactly once,
\* after its contents are copied, on every path on which the native call
\* succeeded (names that are not valid UTF-8 included), and is never
\* released when the native call failed.
C19_StringBufferReleasedOnce ==
    (calc.op \in {"name", "get_platform_string"} /\ calc.calls # <<>>) =>
        calc.frees = PlatformBuffers(calc.st)

\* C20: in both teardown paths, the explicit destroy() and the implicit
\* drop, sensor_destroy_listener is issued before the handler is released
\* or moved out of its allocation: a listener that was created and has lost
\* its handler allocation has had its native destroy call issued.
C20_DestroyBeforeHandlerRelease ==
    \A l \in Listeners :
        (pc[l] # "uninit" /\ nstat[l].create = SENSOR_ERROR_NONE
             /\ obj[l].box = NULL) =>
            destroyCalls[l] >= 1

\* a step of slot l in which start() or stop() made its native call
ToggleStep(l) ==
    /\ pc[l] = "live"
    /\ pc'[l] = "live"
    /\ issued'.lis = l
    /\ issued'.calls \in {<<"sensor_listener_start">>, <<"sensor_listener_stop">>}
    /\ <<ret, issued, native, starts, obj>>' # <<ret, issued, native, starts, obj>>

\* a step of slot l in which destroy() is called on a live listener
DestroyStep(l) == pc[l] = "live" /\ pc'[l] = "destroy_ret"

\* a step of slot l in which destroy() returns to the caller
DestroyReturnStep(l) ==
    pc[l] = "destroy_ret" /\ pc'[l] = "done" /\ pend[l].via # "new"

\* C21: start() and stop() leave the wrapper's own state unchanged whether
\* the native call succeeds or fails: the stored handle, the sensor, the
\* owned handler and the context address registered with the platform are
\* the same after the call as before. The listener stays usable: a later
\* destroy() issues the native destroy call, whatever start() and stop()
\* returned before, and returns the handler.
C21_StartStopFrame ==
    [][\A l \in Listeners :
          /\ ToggleStep(l) =>
                /\ obj'[l] = obj[l]
                /\ obj[l].handle = l
                /\ heap' = heap
                /\ native'[l].cb_fn = native[l].cb_fn
                /\ native'[l].cb_data = native[l].cb_data
                /\ native[l].cb_data = obj[l].box
          /\ DestroyStep(l) =>
                /\ destroyCalls'[l] = destroyCalls[l] + 1
                /\ issued'.calls = <<"sensor_destroy_listener">>
          /\ DestroyReturnStep(l) =>
                /\ heap[obj[l].box].live
                /\ ret'[l].op = "destroy"
                /\ ret'[l].handler = heap[obj[l].box].val
                /\ ret'[l].handler.id = passed[l].handler.id]_vars

\* destroy() has issued the native destroy call and returned the handler of
\* a listener on which no start() had succeeded and one had failed
C21_Witness ==
    \E l \in Listeners :
        /\ pc[l] = "done"
        /\ ret[l].op = "destroy"
        /\ ret[l].handler.id = passed[l].handler.id
        /\ ret[l].handler.id # 0
        /\ destroyCalls[l] = 1
        /\ starts[l] = "failed"

\* the listener value of slot l is held by the caller
Alive(l) == pc[l] = "live"

\* the handler the listener of slot l owns
HandlerOf(l) == heap[obj[l].box].val

\* the handler of listener l is the one passed to its new(), and it has
\* seen exactly the events delivered to l, decoded for l's sensor type
Unmixed(l) ==
    /\ HandlerOf(l).id = passed[l].handler.id
    /\ Len(HandlerOf(l).log) = invoked[l]
    /\ \A k \in 1..Len(HandlerOf(l).log) :
           \E e \in EventsFor(l) :
               HandlerOf(l).log[k] = FromEvent(obj[l].sensor, e)

\* one iteration of the trampoline for a batch delivered to listener a
HandlerCallFor(a) ==
    cbk.state = "running" /\ cbk.lis = a /\ cbk'.i = cbk.i + 1

\* C22: with several listeners alive at once, an event of a batch delivered
\* with listener A's context pointer is passed to A's handler only: A's
\* context is the box A owns, the event is appended to A's handler and
\* counted for A, and no other live listener's box, handler or event count
\* changes. Before and after every step, each live listener's handler is
\* the one given to its new() and has seen exactly the events delivered to
\* that listener.
C22_ListenersIsolated ==
    [][/\ \A l \in Listeners : Alive(l) => Unmixed(l)
       /\ \A l \in Listeners : Alive(l)' => Unmixed(l)'
       /\ \A a \in Listeners :
              (Alive(a) /\ HandlerCallFor(a)) =>
                  /\ cbk.data = obj[a].box
                  /\ HandlerOf(a)'.log =
                         Append(HandlerOf(a).log,
                                FromEvent(obj[a].sensor,
                                          EventAt(cbk.events, cbk.i)))
                  /\ invoked'[a] = invoked[a] + 1
                  /\ \A b \in Listeners \ {a} :
                         Alive(b) =>
                             /\ obj[b].box # obj[a].box
                             /\ HandlerOf(b)' = HandlerOf(b)
                             /\ invoked'[b] = invoked[b]]_vars

\* both listeners are alive on the same trampoline <T, U>, each has had
\* events delivered, and a batch for listener 1 is running after listener
\* 2's handler was invoked
C22_Witness ==
    /\ Alive(1) /\ Alive(2)
    /\ obj[1].sensor = obj[2].sensor
    /\ invoked[1] >= 1 /\ invoked[2] >= 1
    /\ cbk.state = "running" /\ cbk.lis = 1 /\ cbk.i >= 1
    /\ HandlerOf(1).log # HandlerOf(2).log
====
